---- MODULE Spec2Model ----
(***************************************************************************)
(* Policy-Vault: the two validated submission forms, Login                 *)
(* (src/pages/Login.jsx) and PolicyForm (the policy creation form).        *)
(*                                                                         *)
(* One form instance is modelled; `component` says which of the two it is. *)
(* Field values are strings, written here as sequences of one-character    *)
(* strings so that Number(...), new Date(...) and the length checks can be *)
(* computed character by character.                                        *)
(***************************************************************************)
EXTENDS Integers, Sequences, FiniteSets, TLC

VARIABLES
  component,     \* "Login" or "PolicyForm": the component this instance is
  values,        \* react-hook-form field values (field name -> string)
  errors,        \* react-hook-form field errors (violated field -> message)
  isSubmitted,   \* react-hook-form: handleSubmit has run once (re-validate on change)
  isSubmitting,  \* useState(false): the component's own isSubmitting flag
  error,         \* Login only: useState('') error banner text
  pc,            \* "idle", or "validating" while handleSubmit awaits the resolver
  calls,         \* remote calls in flight, each with its argument
  closed,        \* PolicyForm only: onClose has been invoked
  log,           \* outward effects of the most recent handler run, in order
  last           \* what the most recent handler run was, with its inputs

vars == <<component, values, errors, isSubmitted, isSubmitting, error, pc,
          calls, closed, log, last>>

-----------------------------------------------------------------------------
(* Bounds of the model *)

\* most remote calls the model lets be in flight at once (the code has no such cap)
MaxInFlight == 2
\* longest name / company string drawn for the validation-only specification
MaxNameLen == 4

-----------------------------------------------------------------------------
(* Strings *)

DigitChars == <<"0", "1", "2", "3", "4", "5", "6", "7", "8", "9">>

IsDigit(c) == \E i \in 1..10 : DigitChars[i] = c

DigitVal(c) == (CHOOSE i \in 1..10 : DigitChars[i] = c) - 1

AllDigits(s) == \A i \in 1..Len(s) : IsDigit(s[i])

RECURSIVE IntOf(_)
\* the value of a string of decimal digits (0 for the empty string)
IntOf(s) ==
  IF s = <<>> THEN 0
  ELSE IntOf(SubSeq(s, 1, Len(s) - 1)) * 10 + DigitVal(s[Len(s)])

RECURSIVE Pow10(_)
Pow10(n) == IF n = 0 THEN 1 ELSE 10 * Pow10(n - 1)

RECURSIVE TrimLeft(_)
TrimLeft(s) == IF s # <<>> /\ Head(s) = " " THEN TrimLeft(Tail(s)) ELSE s

RECURSIVE TrimRight(_)
TrimRight(s) ==
  IF s # <<>> /\ s[Len(s)] = " " THEN TrimRight(SubSeq(s, 1, Len(s) - 1)) ELSE s

RECURSIVE Repeat(_, _)
Repeat(c, n) == IF n = 0 THEN <<>> ELSE <<c>> \o Repeat(c, n - 1)

RECURSIVE Pad(_, _)
\* decimal digits of n, left-padded with "0" to width w
Pad(n, w) ==
  IF w = 0 THEN <<>> ELSE Pad(n \div 10, w - 1) \o <<DigitChars[(n % 10) + 1]>>

-----------------------------------------------------------------------------
(* JavaScript numbers.  A number is [k, n, d]: k = "num" is the value n/d  *)
(* (d a power of ten), k = "inf" is +Infinity (n = 1) or -Infinity         *)
(* (n = -1), k = "nan" is NaN.                                             *)

NaN == [k |-> "nan", n |-> 0, d |-> 1]

Num(n, d) == [k |-> "num", n |-> n, d |-> d]

Infinity(sign) == [k |-> "inf", n |-> sign, d |-> 1]

InfinityLiteral == <<"I", "n", "f", "i", "n", "i", "t", "y">>

\* StrUnsignedDecimalLiteral without exponent: digits, at most one ".", and
\* at least one digit
UnsignedDecimal(t) ==
  LET dots == {i \in 1..Len(t) : t[i] = "."}
  IN  IF \E i \in 1..Len(t) : ~IsDigit(t[i]) /\ t[i] # "." THEN NaN
      ELSE IF Cardinality(dots) > 1 THEN NaN
      ELSE IF dots = {} THEN (IF t = <<>> THEN NaN ELSE Num(IntOf(t), 1))
      ELSE LET p  == CHOOSE i \in dots : TRUE
               ip == SubSeq(t, 1, p - 1)
               fp == SubSeq(t, p + 1, Len(t))
           IN  IF ip = <<>> /\ fp = <<>> THEN NaN
               ELSE Num(IntOf(ip \o fp), Pow10(Len(fp)))

\* Number(val) for a string val: surrounding blanks are dropped, the empty
\* string is 0, an optional sign, then Infinity or a decimal literal; anything
\* else is NaN.  Exponents and radix prefixes (e, 0x, 0o, 0b) are outside the
\* alphabet of the inputs drawn here.
Number(val) ==
  LET t     == TrimRight(TrimLeft(val))
      neg   == t # <<>> /\ Head(t) = "-"
      sgn   == t # <<>> /\ Head(t) \in {"-", "+"}
      body  == IF sgn THEN Tail(t) ELSE t
      u     == UnsignedDecimal(body)
  IN  IF t = <<>> THEN Num(0, 1)
      ELSE IF body = InfinityLiteral THEN Infinity(IF neg THEN -1 ELSE 1)
      ELSE IF u.k = "nan" THEN NaN
      ELSE Num(IF neg THEN 0 - u.n ELSE u.n, u.d)

isNaN(x) == x.k = "nan"

\* x > c and x <= c for a JavaScript number x and an integer c
Greater(x, c) ==
  \/ x.k = "inf" /\ x.n = 1
  \/ x.k = "num" /\ x.n > c * x.d

AtMost(x, c) ==
  \/ x.k = "inf" /\ x.n = -1
  \/ x.k = "num" /\ x.n <= c * x.d

-----------------------------------------------------------------------------
(* JavaScript dates.  new Date(s) for a date-only ISO string YYYY-MM-DD is *)
(* midnight UTC of that day; any other string drawn here is no date        *)
(* (Invalid Date).  The date strings drawn are "", a non-date word, or a   *)
(* full YYYY-MM-DD string.                                                 *)

InvalidDate == [valid |-> FALSE, y |-> 0, m |-> 0, d |-> 0]

DaysInMonth(y, m) ==
  IF m = 2
    THEN (IF (y % 4 = 0 /\ y % 100 # 0) \/ y % 400 = 0 THEN 29 ELSE 28)
    ELSE IF m \in {4, 6, 9, 11} THEN 30 ELSE 31

Date(s) ==
  IF /\ Len(s) = 10
     /\ s[5] = "-"
     /\ s[8] = "-"
     /\ AllDigits(SubSeq(s, 1, 4))
     /\ AllDigits(SubSeq(s, 6, 7))
     /\ AllDigits(SubSeq(s, 9, 10))
  THEN LET y == IntOf(SubSeq(s, 1, 4))
           m == IntOf(SubSeq(s, 6, 7))
           d == IntOf(SubSeq(s, 9, 10))
       IN  IF m \in 1..12 /\ d >= 1 /\ d <= DaysInMonth(y, m)
             THEN [valid |-> TRUE, y |-> y, m |-> m, d |-> d]
             ELSE InvalidDate
  ELSE InvalidDate

\* Date.prototype.toISOString of a valid date: YYYY-MM-DDTHH:mm:ss.sssZ
\* (it throws RangeError "Invalid time value" for an Invalid Date)
toISOString(t) ==
  Pad(t.y, 4) \o <<"-">> \o Pad(t.m, 2) \o <<"-">> \o Pad(t.d, 2)
    \o <<"T", "0", "0", ":", "0", "0", ":", "0", "0", ".", "0", "0", "0", "Z">>

RangeErrorMessage == "Invalid time value"

-----------------------------------------------------------------------------
(* Validation schemas *)

MinNameLen == 3
MinCompanyLen == 2
MaxNominees == 5

LetterChars ==
  {"a", "b", "c", "d", "e", "f", "g", "h", "i", "j", "k", "l", "m",
   "n", "o", "p", "q", "r", "s", "t", "u", "v", "w", "x", "y", "z"}

\* z.string().email() for strings of lower-case letters, "." and "@":
\* a local part of letters and dots that neither starts nor ends with a dot,
\* one "@", then dot-separated non-empty labels ending in a label of at
\* least two letters; no two dots in a row anywhere
IsEmail(s) ==
  LET ats == {i \in 1..Len(s) : s[i] = "@"}
  IN  /\ Cardinality(ats) = 1
      /\ \A i \in 1..Len(s) : s[i] \in LetterChars \cup {".", "@"}
      /\ \A i \in 1..(Len(s) - 1) : ~(s[i] = "." /\ s[i + 1] = ".")
      /\ LET a      == CHOOSE i \in ats : TRUE
             local  == SubSeq(s, 1, a - 1)
             domain == SubSeq(s, a + 1, Len(s))
             dots   == {i \in 1..Len(domain) : domain[i] = "."}
         IN  /\ local # <<>>
             /\ local[1] # "."
             /\ local[Len(local)] # "."
             /\ dots # {}
             /\ domain[1] # "."
             /\ \A i \in dots : i <= Len(domain) - 2

LoginFields == {"email", "password"}

LoginFieldOk(f, val) ==
  CASE f = "email"    -> IsEmail(val)
    [] f = "password" -> Len(val) >= 1

LoginFieldMessage(f) ==
  CASE f = "email"    -> "Please enter a valid email address"
    [] f = "password" -> "Password is required"

\* Login's formSchema, as the resolver reports it: violated field -> message
LoginFormSchema(data) ==
  [f \in {g \in LoginFields : ~LoginFieldOk(g, data[g])} |-> LoginFieldMessage(f)]

PolicyFields ==
  {"name", "company", "value", "premium", "startDate", "endDate", "nominees"}

\* the refine() predicate of value and premium
IsPositiveNumber(val) == ~isNaN(Number(val)) /\ Greater(Number(val), 0)

\* the refine() predicate of nominees
IsNomineeCount(val) ==
  ~isNaN(Number(val)) /\ Greater(Number(val), 0) /\ AtMost(Number(val), MaxNominees)

PolicyFieldOk(f, val) ==
  CASE f = "name"      -> Len(val) >= MinNameLen
    [] f = "company"   -> Len(val) >= MinCompanyLen
    [] f = "value"     -> IsPositiveNumber(val)
    [] f = "premium"   -> IsPositiveNumber(val)
    [] f = "startDate" -> Len(val) >= 1
    [] f = "endDate"   -> Len(val) >= 1
    [] f = "nominees"  -> IsNomineeCount(val)

PolicyFieldMessage(f) ==
  CASE f = "name"      -> "Policy name must be at least 3 characters"
    [] f = "company"   -> "Company name must be at least 2 characters"
    [] f = "value"     -> "Value must be a positive number"
    [] f = "premium"   -> "Premium must be a positive number"
    [] f = "startDate" -> "Start date is required"
    [] f = "endDate"   -> "End date is required"
    [] f = "nominees"  -> "Nominees must be between 1 and 5"

\* PolicyForm's formSchema, as the resolver reports it: violated field -> message
PolicyFormSchema(data) ==
  [f \in {g \in PolicyFields : ~PolicyFieldOk(g, data[g])} |-> PolicyFieldMessage(f)]

Fields == IF component = "Login" THEN LoginFields ELSE PolicyFields

\* zodResolver(formSchema) of the mounted component
Resolver(data) ==
  IF component = "Login" THEN LoginFormSchema(data) ELSE PolicyFormSchema(data)

-----------------------------------------------------------------------------
(* Initial field values and the strings a user types *)

LoginDefaultValues == [email |-> <<>>, password |-> <<>>]

PolicyDefaultValues ==
  [name |-> <<>>, company |-> <<>>, value |-> <<>>, premium |-> <<>>,
   startDate |-> <<>>, endDate |-> <<>>, nominees |-> <<"1">>]

LoginInputs(f) ==
  CASE f = "email"    -> {<<"a", "@", "b", ".", "c", "o">>, <<"a", "b">>}
    [] f = "password" -> {<<"p", "w">>}

PolicyInputs(f) ==
  CASE f = "name"      -> {<<"L", "i">>, <<"L", "i", "f", "e">>}
    [] f = "company"   -> {<<"M", "e", "t">>}
    [] f = "value"     -> {<<"-", "5">>, <<"1", "0", "0", "0", "0", "0">>}
    [] f = "premium"   -> {<<"5", "0">>}
    [] f = "startDate" -> {<<"a", "b", "c">>,
                           <<"2", "0", "2", "4", "-", "0", "1", "-", "0", "1">>}
    [] f = "endDate"   -> {<<"2", "0", "2", "5", "-", "0", "1", "-", "0", "1">>}
    [] f = "nominees"  -> {<<"5">>, <<"6">>}

Inputs(f) == IF component = "Login" THEN LoginInputs(f) ELSE PolicyInputs(f)

\* what a collaborator's rejection carries as err.message ("" is no message)
ErrorMessages == {"duplicate policy", ""}

\* identifiers the policy service assigns
ServerIds == {"p1", "p2"}

-----------------------------------------------------------------------------
(* Outward effects, as entries of log *)

NoResource == [id |-> ""]

Effect(op, msg, res) == [op |-> op, msg |-> msg, res |-> res]

ToastError(msg) == Effect("toast.error", msg, NoResource)

ToastSuccess(msg) == Effect("toast.success", msg, NoResource)

OnAddPolicy(res) == Effect("onAddPolicy", "", res)

OnClose == Effect("onClose", "", NoResource)

Navigate(route) == Effect("navigate", route, NoResource)

Remove(seq, i) == SubSeq(seq, 1, i - 1) \o SubSeq(seq, i + 1, Len(seq))

-----------------------------------------------------------------------------
(* The form instance *)

Init ==
  /\ component \in {"Login", "PolicyForm"}
  /\ values = (IF component = "Login" THEN LoginDefaultValues ELSE PolicyDefaultValues)
  /\ errors = <<>>
  /\ isSubmitted = FALSE
  /\ isSubmitting = FALSE
  /\ error = ""
  /\ pc = "idle"
  /\ calls = <<>>
  /\ closed = FALSE
  /\ log = <<>>
  /\ last = [kind |-> "mount"]

\* The form is on screen and the event loop is between tasks: user events and
\* promise settlements are delivered only then, never between the microtasks
\* of a running handleSubmit.
Mounted == ~closed

Ready == pc = "idle"

\* SubmitDisabled with the disabled attribute left off the submit button
SubmitNeverDisabled == FALSE

\* disabled={isSubmitting} of the submit button; the rendered attribute is
\* taken to follow the state before the next user event
SubmitDisabled == isSubmitting

\* disabled={isSubmitting} of PolicyForm's Cancel button
CancelDisabled == isSubmitting

\* PolicyForm's header X button carries no disabled attribute
CloseDisabled == FALSE

\* A field's onChange ({...field}).  useForm is given no mode, so a change
\* validates nothing before the first submit and re-validates the changed
\* field after it.
Change(f, v) ==
  /\ Ready /\ Mounted
  /\ values' = [values EXCEPT ![f] = v]
  /\ errors' =
       IF isSubmitted
         THEN LET e == Resolver(values')
              IN  [g \in (DOMAIN errors \ {f}) \cup ({f} \cap DOMAIN e) |->
                     IF g = f THEN e[g] ELSE errors[g]]
         ELSE errors
  /\ log' = <<>>
  /\ last' = [kind |-> "change"]
  /\ UNCHANGED <<component, isSubmitted, isSubmitting, error, pc, calls, closed>>

\* A click on the submit button: the form's onSubmit, form.handleSubmit(onSubmit),
\* starts and awaits the resolver.
Submit ==
  /\ Ready /\ Mounted
  /\ ~SubmitDisabled
  /\ Len(calls) < MaxInFlight
  /\ pc' = "validating"
  /\ log' = <<>>
  /\ last' = [kind |-> "submit"]
  /\ UNCHANGED <<component, values, errors, isSubmitted, isSubmitting, error,
                 calls, closed>>

\* LoginOnSubmit without its setIsSubmitting(true)
LoginOnSubmitNoFlag(data) ==
  /\ isSubmitting' = isSubmitting
  /\ error' = ""
  /\ calls' = Append(calls, [arg |-> [email |-> data.email, password |-> data.password]])
  /\ log' = <<>>
  /\ last' = [kind |-> "dispatched"]
  /\ UNCHANGED closed

\* The synchronous part of Login's onSubmit, up to its await
LoginOnSubmit(data) ==
  /\ isSubmitting' = TRUE
  /\ error' = ""
  /\ calls' = Append(calls, [arg |-> [email |-> data.email, password |-> data.password]])
  /\ log' = <<>>
  /\ last' = [kind |-> "dispatched"]
  /\ UNCHANGED closed

\* the newPolicy object of PolicyForm's onSubmit
NewPolicy(data) ==
  [name      |-> data.name,
   company   |-> data.company,
   value     |-> Number(data.value),
   premium   |-> Number(data.premium),
   startDate |-> toISOString(Date(data.startDate)),
   endDate   |-> toISOString(Date(data.endDate)),
   status    |-> "Active"]

\* The synchronous part of PolicyForm's onSubmit, up to its await: a date that
\* is no date makes toISOString throw, which the catch reports and the finally
\* follows.
PolicyOnSubmit(data) ==
  /\ IF Date(data.startDate).valid /\ Date(data.endDate).valid
       THEN /\ isSubmitting' = TRUE
            /\ calls' = Append(calls, [arg |-> NewPolicy(data)])
            /\ log' = <<>>
            /\ last' = [kind |-> "dispatched"]
       ELSE /\ isSubmitting' = FALSE
            /\ calls' = calls
            /\ log' = <<ToastError(RangeErrorMessage)>>
            /\ last' = [kind |-> "threw"]
  /\ UNCHANGED <<error, closed>>

onSubmit(data) ==
  IF component = "Login" THEN LoginOnSubmit(data) ELSE PolicyOnSubmit(data)

\* HandleSubmit calling onSubmit whatever the resolver answered
HandleSubmitUnchecked ==
  /\ pc = "validating"
  /\ pc' = "idle"
  /\ isSubmitted' = TRUE
  /\ errors' = Resolver(values)
  /\ onSubmit(values)
  /\ UNCHANGED <<component, values>>

\* handleSubmit after the resolver has answered: errors are written and
\* nothing else happens, or the errors are cleared and onSubmit is called.
HandleSubmit ==
  /\ pc = "validating"
  /\ pc' = "idle"
  /\ isSubmitted' = TRUE
  /\ errors' = Resolver(values)
  /\ IF DOMAIN Resolver(values) # {}
       THEN /\ log' = <<>>
            /\ last' = [kind |-> "invalid"]
            /\ UNCHANGED <<isSubmitting, error, calls, closed>>
       ELSE onSubmit(values)
  /\ UNCHANGED <<component, values>>

\* what PolicyService.addPolicy resolves with: the draft and its new identifier
SavedPolicy(newPolicy, id) ==
  [id        |-> id,
   name      |-> newPolicy.name,
   company   |-> newPolicy.company,
   value     |-> newPolicy.value,
   premium   |-> newPolicy.premium,
   startDate |-> newPolicy.startDate,
   endDate   |-> newPolicy.endDate,
   status    |-> newPolicy.status]

\* PolicyResolve handing onAddPolicy the policy it sent, which has no
\* identifier, instead of savedPolicy
PolicyResolveWithDraft(i, id) ==
  /\ component = "PolicyForm" /\ Ready
  /\ i \in 1..Len(calls)
  /\ LET savedPolicy == SavedPolicy(calls[i].arg, id)
     IN  /\ log' = <<OnAddPolicy(SavedPolicy(calls[i].arg, "")),
                     ToastSuccess("Policy added successfully"),
                     OnClose>>
         /\ last' = [kind |-> "resolved", arg |-> calls[i].arg, result |-> savedPolicy]
  /\ closed' = TRUE
  /\ isSubmitting' = FALSE
  /\ calls' = Remove(calls, i)
  /\ UNCHANGED <<component, values, errors, isSubmitted, error, pc>>

\* PolicyForm's onSubmit after the await, the call having resolved
PolicyResolve(i, id) ==
  /\ component = "PolicyForm" /\ Ready
  /\ i \in 1..Len(calls)
  /\ LET savedPolicy == SavedPolicy(calls[i].arg, id)
     IN  /\ log' = <<OnAddPolicy(savedPolicy),
                     ToastSuccess("Policy added successfully"),
                     OnClose>>
         /\ last' = [kind |-> "resolved", arg |-> calls[i].arg, result |-> savedPolicy]
  /\ closed' = TRUE
  /\ isSubmitting' = FALSE
  /\ calls' = Remove(calls, i)
  /\ UNCHANGED <<component, values, errors, isSubmitted, error, pc>>

\* PolicyReject with setIsSubmitting(false) at the end of the try block
\* instead of in a finally
PolicyRejectNoFinally(i, message) ==
  /\ component = "PolicyForm" /\ Ready
  /\ i \in 1..Len(calls)
  /\ log' = <<ToastError(IF message # "" THEN message
                         ELSE "Failed to add policy. Please try again.")>>
  /\ last' = [kind |-> "rejected", arg |-> calls[i].arg, message |-> message]
  /\ isSubmitting' = isSubmitting
  /\ calls' = Remove(calls, i)
  /\ UNCHANGED <<component, values, errors, isSubmitted, error, pc, closed>>

\* PolicyForm's onSubmit after the await, the call having rejected
PolicyReject(i, message) ==
  /\ component = "PolicyForm" /\ Ready
  /\ i \in 1..Len(calls)
  /\ log' = <<ToastError(IF message # "" THEN message
                         ELSE "Failed to add policy. Please try again.")>>
  /\ last' = [kind |-> "rejected", arg |-> calls[i].arg, message |-> message]
  /\ isSubmitting' = FALSE
  /\ calls' = Remove(calls, i)
  /\ UNCHANGED <<component, values, errors, isSubmitted, error, pc, closed>>

\* Login's onSubmit after the await, login having resolved with success
LoginResolve(i, success) ==
  /\ component = "Login" /\ Ready
  /\ i \in 1..Len(calls)
  /\ log' = (IF success THEN <<Navigate("/dashboard")>> ELSE <<>>)
  /\ last' = [kind |-> "resolved", arg |-> calls[i].arg, result |-> success]
  /\ isSubmitting' = FALSE
  /\ calls' = Remove(calls, i)
  /\ UNCHANGED <<component, values, errors, isSubmitted, error, pc, closed>>

\* LoginReject showing the fixed text whatever the collaborator reported
LoginRejectGeneric(i, message) ==
  /\ component = "Login" /\ Ready
  /\ i \in 1..Len(calls)
  /\ error' = "Invalid email or password"
  /\ log' = <<>>
  /\ last' = [kind |-> "rejected", arg |-> calls[i].arg, message |-> message]
  /\ isSubmitting' = FALSE
  /\ calls' = Remove(calls, i)
  /\ UNCHANGED <<component, values, errors, isSubmitted, pc, closed>>

\* Login's onSubmit after the await, login having rejected
LoginReject(i, message) ==
  /\ component = "Login" /\ Ready
  /\ i \in 1..Len(calls)
  /\ error' = (IF message # "" THEN message ELSE "Invalid email or password")
  /\ log' = <<>>
  /\ last' = [kind |-> "rejected", arg |-> calls[i].arg, message |-> message]
  /\ isSubmitting' = FALSE
  /\ calls' = Remove(calls, i)
  /\ UNCHANGED <<component, values, errors, isSubmitted, pc, closed>>

\* A click on PolicyForm's header X button: onClick={onClose}
ClickClose ==
  /\ component = "PolicyForm" /\ Ready /\ Mounted
  /\ ~CloseDisabled
  /\ closed' = TRUE
  /\ log' = <<OnClose>>
  /\ last' = [kind |-> "close", button |-> "X"]
  /\ UNCHANGED <<component, values, errors, isSubmitted, isSubmitting, error, pc, calls>>

\* A click on PolicyForm's Cancel button: onClick={onClose}
ClickCancel ==
  /\ component = "PolicyForm" /\ Ready /\ Mounted
  /\ ~CancelDisabled
  /\ closed' = TRUE
  /\ log' = <<OnClose>>
  /\ last' = [kind |-> "close", button |-> "Cancel"]
  /\ UNCHANGED <<component, values, errors, isSubmitted, isSubmitting, error, pc, calls>>

\* the pending remote call settles and onSubmit runs to its end
Settle ==
  \E i \in 1..MaxInFlight :
    \/ \E id \in ServerIds : PolicyResolve(i, id)
    \/ \E message \in ErrorMessages : PolicyReject(i, message)
    \/ \E success \in BOOLEAN : LoginResolve(i, success)
    \/ \E message \in ErrorMessages : LoginReject(i, message)

Next ==
  \/ \E f \in Fields : \E v \in Inputs(f) : Change(f, v)
  \/ Submit
  \/ HandleSubmit
  \/ Settle
  \/ ClickClose
  \/ ClickCancel

Spec == Init /\ [][Next]_vars

\* A remote call in flight is taken to settle.
LiveSpec == Spec /\ WF_vars(Settle)

-----------------------------------------------------------------------------
(* The validation layer alone: formSchema applied to one FormState *)

ValidateNames == {Repeat("a", n) : n \in 0..MaxNameLen}

ValidateValues ==
  {<<>>, <<"-", "5">>, <<"0">>, <<"1", "0", "0", "0", "0", "0">>,
   <<"a", "b", "c">>, InfinityLiteral}

ValidatePremiums == {<<>>, <<"5", "0">>, <<"-", "1">>}

ValidateStartDates ==
  {<<>>, <<"a", "b", "c">>, <<"2", "0", "2", "4", "-", "0", "1", "-", "0", "1">>}

ValidateEndDates ==
  {<<>>, <<"2", "0", "2", "5", "-", "0", "1", "-", "0", "1">>}

ValidateNominees ==
  {<<>>, <<"0">>, <<"0", ".", "5">>, <<"1">>, <<"2">>, <<"5">>, <<"6">>,
   <<"a", "b", "c">>}

PolicyFormStates ==
  [name : ValidateNames, company : ValidateNames, value : ValidateValues,
   premium : ValidatePremiums, startDate : ValidateStartDates,
   endDate : ValidateEndDates, nominees : ValidateNominees]

InitValidate ==
  /\ component = "PolicyForm"
  /\ values \in PolicyFormStates
  /\ errors = <<>>
  /\ isSubmitted = FALSE
  /\ isSubmitting = FALSE
  /\ error = ""
  /\ pc = "idle"
  /\ calls = <<>>
  /\ closed = FALSE
  /\ log = <<>>
  /\ last = [kind |-> "mount"]

\* the resolver run on the FormState, its answer kept in errors
Validate ==
  /\ last.kind = "mount"
  /\ errors' = Resolver(values)
  /\ last' = [kind |-> "validated"]
  /\ UNCHANGED <<component, values, isSubmitted, isSubmitting, error, pc,
                 calls, closed, log>>

SpecValidate == InitValidate /\ [][Validate]_vars

-----------------------------------------------------------------------------
(* Properties *)

InFlight == Len(calls)

HasEffect(op) == \E i \in 1..Len(log) : log[i].op = op

\* C1: at most one remote call is in flight per form instance, and while
\* isSubmitting is true no submit trigger is accepted.
OneCallInFlight ==
  /\ InFlight <= 1
  /\ isSubmitting => ~ENABLED Submit

\* a call is pending, the flag is up, and the user has gone on editing
OneCallInFlightWitness ==
  /\ InFlight = 1
  /\ isSubmitting
  /\ last.kind = "change"

\* C2: a submit trigger whose values fail validation writes the field errors,
\* leaves the form idle with isSubmitting false, and makes no remote call; the
\* value "-5" gets "Value must be a positive number" and no call.
InvalidSubmitMakesNoCall ==
  [][/\ (pc = "validating" /\ DOMAIN Resolver(values) # {})
          => /\ calls' = calls
             /\ errors' = Resolver(values)
             /\ DOMAIN errors' # {}
             /\ isSubmitting' = FALSE
             /\ pc' = "idle"
     /\ (pc = "validating" /\ component = "PolicyForm"
           /\ values.value = <<"-", "5">>)
          => /\ calls' = calls
             /\ "value" \in DOMAIN errors'
             /\ errors'["value"] = "Value must be a positive number"
             /\ pc' = "idle"]_vars

\* the "-5" submit has been validated and refused, no call made
InvalidSubmitWitness ==
  /\ component = "PolicyForm"
  /\ last.kind = "invalid"
  /\ values.value = <<"-", "5">>
  /\ "value" \in DOMAIN errors
  /\ InFlight = 0
  /\ ~isSubmitting

\* the field constraints as the specification's table states them
AtLeast(x, c) ==
  \/ x.k = "inf" /\ x.n = 1
  \/ x.k = "num" /\ x.n >= c * x.d

StatedConstraint(f, val) ==
  CASE f = "name"      -> Len(val) >= 3
    [] f = "company"   -> Len(val) >= 2
    [] f = "value"     -> ~isNaN(Number(val)) /\ Greater(Number(val), 0)
    [] f = "premium"   -> ~isNaN(Number(val)) /\ Greater(Number(val), 0)
    [] f = "startDate" -> val # <<>> /\ Date(val).valid
    [] f = "endDate"   -> val # <<>> /\ Date(val).valid
    [] f = "nominees"  -> /\ ~isNaN(Number(val))
                          /\ AtLeast(Number(val), 1)
                          /\ AtMost(Number(val), 5)

\* C3: the validation layer reports an error for exactly the fields whose
\* stated constraint is violated (so it answers Valid exactly when all hold).
ValidationMatchesConstraints ==
  last.kind = "validated"
    => DOMAIN errors = {f \in PolicyFields : ~StatedConstraint(f, values[f])}

\* YYYY-MM-DDTHH:mm:ss.sssZ with a month and a day that exist
IsIsoInstant(s) ==
  /\ Len(s) = 24
  /\ Date(SubSeq(s, 1, 10)).valid
  /\ s[11] = "T"
  /\ AllDigits(SubSeq(s, 12, 13)) /\ IntOf(SubSeq(s, 12, 13)) <= 23
  /\ s[14] = ":"
  /\ AllDigits(SubSeq(s, 15, 16)) /\ IntOf(SubSeq(s, 15, 16)) <= 59
  /\ s[17] = ":"
  /\ AllDigits(SubSeq(s, 18, 19)) /\ IntOf(SubSeq(s, 18, 19)) <= 59
  /\ s[20] = "."
  /\ AllDigits(SubSeq(s, 21, 23))
  /\ s[24] = "Z"

\* C4: every PolicyDraft passed to PolicyService.addPolicy carries name,
\* company, a finite positive value and premium, start and end dates that are
\* ISO8601 instants, a nominee count in 1..5 and status "Active".
DraftIsComplete ==
  component = "PolicyForm" =>
    \A i \in 1..Len(calls) :
      LET draft == calls[i].arg
      IN  /\ {"name", "company", "value", "premium", "startDate", "endDate",
              "status"} \subseteq DOMAIN draft
          /\ draft.value.k = "num" /\ draft.value.n > 0
          /\ draft.premium.k = "num" /\ draft.premium.n > 0
          /\ IsIsoInstant(draft.startDate)
          /\ IsIsoInstant(draft.endDate)
          /\ draft.status = "Active"
          /\ "nominees" \in DOMAIN draft
          /\ draft.nominees \in 1..5

SubmittingFromTrigger == (pc = "validating" \/ InFlight > 0) => isSubmitting

\* C6: isSubmitting is true from the entry of onSubmit, validation having
\* passed, until the submission ends; while the resolver runs it is still false.
SubmittingFromOnSubmit ==
  /\ InFlight > 0 => isSubmitting
  /\ pc = "validating" => ~isSubmitting

\* onSubmit has just dispatched the call
SubmittingFromOnSubmitWitness ==
  /\ last.kind = "dispatched"
  /\ InFlight = 1
  /\ isSubmitting

RejectionText(message, fallback) == IF message # "" THEN message ELSE fallback

\* C7: when the remote call rejects, one error notification is shown, with
\* the collaborator's message or else the fixed fallback, the field values are
\* untouched, and no success effect occurs.
RejectionKeepsForm ==
  [][last'.kind = "rejected" =>
       /\ values' = values
       /\ ~(\E i \in 1..Len(log') :
              log'[i].op \in {"onAddPolicy", "toast.success", "onClose", "navigate"})
       /\ closed' = closed
       /\ IF component = "PolicyForm"
            THEN /\ Len(log') = 1
                 /\ log'[1].op = "toast.error"
                 /\ log'[1].msg = RejectionText(last'.message,
                                    "Failed to add policy. Please try again.")
                 /\ error' = error
            ELSE /\ log' = <<>>
                 /\ error' = RejectionText(last'.message, "Invalid email or password")]_vars

\* addPolicy has rejected with "duplicate policy", the toast shows it, and the
\* values that were submitted are still in the form
RejectionKeepsFormWitness ==
  /\ component = "PolicyForm"
  /\ last.kind = "rejected"
  /\ last.message = "duplicate policy"
  /\ log = <<ToastError("duplicate policy")>>
  /\ values.name = last.arg.name
  /\ ~closed

\* C8: in PolicyForm a resolved addPolicy is followed by onAddPolicy with the
\* resource the service returned, then the success notification, then
\* onClose, each once and in that order; no other handler run calls onAddPolicy.
ResolveEffectsInOrder ==
  component = "PolicyForm" =>
    IF last.kind = "resolved"
      THEN /\ Len(log) = 3
           /\ log[1].op = "onAddPolicy"
           /\ log[1].res = last.result
           /\ log[2].op = "toast.success"
           /\ log[3].op = "onClose"
      ELSE ~HasEffect("onAddPolicy")

\* addPolicy has resolved with identifier p1 and onAddPolicy received it
ResolveEffectsWitness ==
  /\ component = "PolicyForm"
  /\ last.kind = "resolved"
  /\ last.result.id = "p1"
  /\ HasEffect("onAddPolicy")

\* C9: a Login submission whose call settles ends either with navigation to
\* /dashboard or with a non-empty error message, never with neither.
LoginEndsSucceededOrFailed ==
  (component = "Login" /\ last.kind \in {"resolved", "rejected"})
    => ((\E i \in 1..Len(log) : log[i].op = "navigate" /\ log[i].msg = "/dashboard")
          # (error # ""))

\* C10: PolicyForm's onClose is not invoked while its remote call is pending.
NoCloseWhilePending ==
  component = "PolicyForm" => (InFlight > 0 => ~closed)

====
